---- MODULE Spec2Model ----
(***************************************************************************)
(* The asset graph engine of dagit's asset-graph package: buildGraphData,  *)
(* graphHasCycles, buildLiveDataForNode (Utils.tsx) and the topology       *)
(* queries graphDirectionOf / opsInRange (AssetGraphExplorer), and the     *)
(* spans and the range-selecting drag of the PartitionStatus component.    *)
(*                                                                         *)
(* JavaScript objects used as maps are partial functions (the DOMAIN is    *)
(* the set of own keys); an object whose values are all `true` is the set  *)
(* of its keys.  Arrays are sequences.                                     *)
(***************************************************************************)
EXTENDS Integers, Sequences, FiniteSets, TLC

VARIABLES
    \* buildGraphData
    assetNodes,     \* the argument: AssetNode[]
    idx,            \* position of assetNodes.forEach (0 = not running)
    data,           \* const data: GraphData
    \* the explorer's graph, the argument of graphHasCycles and of the queries
    assetGraphData,
    \* graphHasCycles
    nodes,          \* const nodes = new Set(Object.keys(graphData.nodes))
    calls,          \* the active calls of search, outermost first
    hasCycles,      \* let hasCycles
    cyclePc,        \* "idle", "while" (at the loop test), "search", "done"
    removals,       \* history: how often nodes.delete(id) returned true, per id
    \* graphDirectionOf / opsInRange
    op,             \* the function called: "graphDirectionOf" or "opsInRange"
    from,           \* the id of the argument `from`, or Null
    to,             \* the id of the argument `to`
    stack,          \* const stack of graphDirectionOf
    direction,      \* what graphDirectionOf returned ("none" before it has)
    result,         \* what opsInRange returned
    rangePc,        \* "idle", "call", "direction", "walk", "done"
    round,          \* 1: the call (from, to); 2: the call with the two swapped
    firstResult,    \* what the call of round 1 returned
    \* buildLiveDataForNode
    assetNode,      \* the argument: AssetLiveNode
    assetLatestInfo,\* the argument: AssetLatestInfo, or Undefined
    liveData,       \* the LiveDataForNode returned (NullObj before the return)
    \* PartitionStatus: the props
    partitionNames, \* partitionNames: string[]
    partitionStateForKey, \* the status the prop returns for (partitionNames[i], i)
    splitPartitions,\* splitPartitions?: boolean
    onSelect,       \* whether onSelect is supplied
    selected,       \* selected?: string[], or UndefinedList
    \* PartitionStatus: one render's computation of `spans`
    spans,          \* the spans array
    ii,             \* the loop index of _partitionsToSpans
    spansPc,        \* "idle", "render", "loop" (in _partitionsToSpans), "done"
    \* PartitionStatus: the drag
    mounted,        \* whether the component is mounted
    currentSelectionRange, \* the state: a SelectionRange, or Undefined
    listeners,      \* the mousemove/mouseup pairs registered on window
    lastEvent,      \* the last pointer event delivered
    onSelectCalls,  \* the arguments of the onSelect calls of the last event
    lastDrag        \* history: the drag that the last pointer-up ended

buildVars == <<assetNodes, idx, data>>
cycleVars == <<nodes, calls, hasCycles, cyclePc, removals>>
rangeVars == <<op, from, to, stack, direction, result, rangePc, round, firstResult>>
liveVars == <<assetNode, assetLatestInfo, liveData>>
spanVars == <<partitionStateForKey, splitPartitions, spans, ii, spansPc>>
dragVars == <<onSelect, selected, mounted, currentSelectionRange, listeners, lastEvent,
              onSelectCalls, lastDrag>>
vars == <<assetNodes, idx, data, assetGraphData, nodes, calls, hasCycles, cyclePc, removals,
          op, from, to, stack, direction, result, rangePc, round, firstResult,
          assetNode, assetLatestInfo, liveData,
          partitionNames, partitionStateForKey, splitPartitions, onSelect, selected,
          spans, ii, spansPc,
          mounted, currentSelectionRange, listeners, lastEvent, onSelectCalls, lastDrag>>

\* what the steps of one function leave alone: the state of the others
exceptBuild == <<assetGraphData, cycleVars, rangeVars, liveVars, partitionNames, spanVars, dragVars>>
exceptCycle == <<buildVars, assetGraphData, rangeVars, liveVars, partitionNames, spanVars, dragVars>>
exceptRange == <<buildVars, assetGraphData, cycleVars, liveVars, partitionNames, spanVars, dragVars>>
exceptSpans == <<buildVars, assetGraphData, cycleVars, rangeVars, liveVars, dragVars>>
exceptDrag == <<buildVars, assetGraphData, cycleVars, rangeVars, liveVars, spanVars>>
exceptLive == <<buildVars, assetGraphData, cycleVars, rangeVars, partitionNames, spanVars, dragVars>>

(***************************************************************************)
(* Bounds of the model.                                                    *)
(***************************************************************************)
MaxDefs == 2        \* definitions in one assetNodes list
MaxEdges == 4       \* declared dependencies in one enumerated graph
MaxEvents == 2      \* materializations in one live snapshot
MaxPartitions == 3  \* partitions of one PartitionStatus

(***************************************************************************)
(* Asset keys and GraphIds.                                                *)
(***************************************************************************)
\* AssetKey: {path: string[]}
AssetKeyOf(p) == [path |-> p]

\* the keys of the assets of the enumerated graphs, in a fixed order
KeyOrder == <<AssetKeyOf(<<"a">>), AssetKeyOf(<<"b">>), AssetKeyOf(<<"c">>),
              AssetKeyOf(<<"a", "b">>)>>

GraphKeys == {KeyOrder[i] : i \in 1..Len(KeyOrder)}

\* the keys of the definitions handed to buildGraphData
BuildKeys == {AssetKeyOf(<<"a">>), AssetKeyOf(<<"b">>), AssetKeyOf(<<"a", "b">>)}

\* JSON.stringify of one path segment (segments here need no escaping)
Quoted(s) == "\"" \o s \o "\""

RECURSIVE JoinQuoted(_)
JoinQuoted(path) ==
    IF Len(path) = 0 THEN ""
    ELSE IF Len(path) = 1 THEN Quoted(path[1])
    ELSE Quoted(path[1]) \o "," \o JoinQuoted(Tail(path))

\* toGraphId = (key) => JSON.stringify(key.path)
toGraphId(key) == "[" \o JoinQuoted(key.path) \o "]"

(***************************************************************************)
(* Objects as maps.                                                        *)
(***************************************************************************)
EmptyMap == [k \in {} |-> {}]

\* obj[k] || {}
GetOrEmpty(obj, k) == IF k \in DOMAIN obj THEN obj[k] ELSE {}

\* obj[k] = v
Put(obj, k, v) == [x \in (DOMAIN obj) \cup {k} |-> IF x = k THEN v ELSE obj[x]]

(***************************************************************************)
(* buildGraphData                                                          *)
(***************************************************************************)
EmptyGraphData == [nodes |-> EmptyMap, downstream |-> EmptyMap, upstream |-> EmptyMap]

\* a mutation of addEdge: the spread of the previous entry is forgotten
addEdgeNoSpread(d, upstreamGraphId, downstreamGraphId) ==
    IF upstreamGraphId = downstreamGraphId
    THEN d
    ELSE [d EXCEPT
            !.downstream = Put(@, upstreamGraphId, {downstreamGraphId}),
            !.upstream = Put(@, downstreamGraphId, {upstreamGraphId})]

\* a mutation of addEdge: the self-dependency test is missing
addEdgeNoSelfTest(d, upstreamGraphId, downstreamGraphId) ==
    [d EXCEPT
        !.downstream = Put(@, upstreamGraphId,
                           GetOrEmpty(@, upstreamGraphId) \cup {downstreamGraphId}),
        !.upstream = Put(@, downstreamGraphId,
                         GetOrEmpty(@, downstreamGraphId) \cup {upstreamGraphId})]

\* a mutation of addEdge: the upstream index is keyed by the wrong end
addEdgeWrongKey(d, upstreamGraphId, downstreamGraphId) ==
    IF upstreamGraphId = downstreamGraphId
    THEN d
    ELSE [d EXCEPT
            !.downstream = Put(@, upstreamGraphId,
                               GetOrEmpty(@, upstreamGraphId) \cup {downstreamGraphId}),
            !.upstream = Put(@, upstreamGraphId,
                             GetOrEmpty(@, upstreamGraphId) \cup {downstreamGraphId})]

addEdge(d, upstreamGraphId, downstreamGraphId) ==
    IF upstreamGraphId = downstreamGraphId
    THEN d
    ELSE [d EXCEPT
            !.downstream = Put(@, upstreamGraphId,
                               GetOrEmpty(@, upstreamGraphId) \cup {downstreamGraphId}),
            !.upstream = Put(@, downstreamGraphId,
                             GetOrEmpty(@, downstreamGraphId) \cup {upstreamGraphId})]

\* definition.dependencyKeys.forEach((key) => addEdge(toGraphId(key), id))
RECURSIVE addDependencyEdges(_, _, _)
addDependencyEdges(d, keys, id) ==
    IF keys = <<>> THEN d
    ELSE addDependencyEdges(addEdge(d, toGraphId(Head(keys)), id), Tail(keys), id)

\* definition.dependedByKeys.forEach((key) => addEdge(id, toGraphId(key)))
RECURSIVE addDependedByEdges(_, _, _)
addDependedByEdges(d, keys, id) ==
    IF keys = <<>> THEN d
    ELSE addDependedByEdges(addEdge(d, id, toGraphId(Head(keys))), Tail(keys), id)

\* {id, assetKey: definition.assetKey, definition}
GraphNodeOf(definition) ==
    [id |-> toGraphId(definition.assetKey),
     assetKey |-> definition.assetKey,
     definition |-> definition]

\* the body of assetNodes.forEach
forEachDefinition(d, definition) ==
    LET id == toGraphId(definition.assetKey)
        d1 == addDependencyEdges(d, definition.dependencyKeys, id)
        d2 == addDependedByEdges(d1, definition.dependedByKeys, id)
    IN  [d2 EXCEPT !.nodes = Put(@, id, GraphNodeOf(definition))]

RECURSIVE forEachFrom(_, _, _)
forEachFrom(d, list, i) ==
    IF i > Len(list) THEN d
    ELSE forEachFrom(forEachDefinition(d, list[i]), list, i + 1)

\* buildGraphData(assetNodes), start to finish
buildGraphData(list) == forEachFrom(EmptyGraphData, list, 1)

\* dependencyKeys / dependedByKeys of the enumerated definitions
DepLists == {<<>>} \cup {<<k>> : k \in BuildKeys}

\* the op names the model gives the asset with a key
OpNamesOfPath(p) ==
    IF p = <<"a">> THEN <<"op_a">>
    ELSE IF p = <<"b">> THEN <<"op_b">>
    ELSE IF p = <<"c">> THEN <<"op_b", "op_c">>
    ELSE <<>>

\* AssetNode (AssetGraphQuery_assetNodes), the fields the graph code reads
Definitions ==
    {[assetKey |-> k, dependencyKeys |-> deps, dependedByKeys |-> by,
      opNames |-> OpNamesOfPath(k.path)] :
        k \in BuildKeys, deps \in DepLists, by \in DepLists}

DefinitionLists == UNION {[1..n -> Definitions] : n \in 0..MaxDefs}

(***************************************************************************)
(* The graphs handed to graphHasCycles and to the topology queries: each   *)
(* is what buildGraphData returns for the definitions of the loaded        *)
(* assets, whose dependencies may name assets that are not loaded.         *)
(***************************************************************************)
\* the keys of a set, as a list in KeyOrder
KeyList(keys) == SelectSeq(KeyOrder, LAMBDA k : k \in keys)

AllDependencies == {p \in GraphKeys \X GraphKeys : p[1] # p[2]}

\* <<loaded, deps>>: the loaded assets and the dependencies <<upstream key,
\* downstream key>> their definitions declare
GraphInputs ==
    {gin \in (SUBSET GraphKeys) \X {E \in SUBSET AllDependencies : Cardinality(E) <= MaxEdges} :
        \A p \in gin[2] : p[1] \in gin[1] \/ p[2] \in gin[1]}

\* the definition the server returns for a loaded asset
DefinitionFor(k, deps) ==
    [assetKey |-> k,
     dependencyKeys |-> KeyList({p[1] : p \in {q \in deps : q[2] = k}}),
     dependedByKeys |-> KeyList({p[2] : p \in {q \in deps : q[1] = k}}),
     opNames |-> OpNamesOfPath(k.path)]

\* the definitions of the loaded assets, as the server lists them
DefinitionsOf(loaded, deps) ==
    [i \in 1..Len(KeyList(loaded)) |-> DefinitionFor(KeyList(loaded)[i], deps)]

GraphOf(loaded, deps) == buildGraphData(DefinitionsOf(loaded, deps))

(***************************************************************************)
(* The state of a function that is not running.                            *)
(***************************************************************************)
BuildIdle == assetNodes = <<>> /\ idx = 0 /\ data = EmptyGraphData

CycleIdle ==
    /\ nodes = {}
    /\ calls = <<>>
    /\ hasCycles = FALSE
    /\ cyclePc = "idle"
    /\ removals = EmptyMap

\* null, for a string or an id
Null == "null"

\* null and undefined, for an object
NullObj == [null |-> TRUE]
Undefined == [undefined |-> TRUE]

\* list[0] of an empty string[]
UndefinedString == "undefined"

\* undefined, for an optional string[] prop: no list of names equals it
UndefinedList == <<UndefinedString>>

RangeIdle ==
    /\ op = "none"
    /\ from = Null
    /\ to = Null
    /\ stack = <<>>
    /\ direction = "none"
    /\ result = <<>>
    /\ rangePc = "idle"
    /\ round = 0
    /\ firstResult = <<>>

LiveIdle ==
    /\ assetNode = NullObj
    /\ assetLatestInfo = Undefined
    /\ liveData = NullObj

SpansIdle ==
    /\ partitionStateForKey = <<>>
    /\ splitPartitions = FALSE
    /\ spans = <<>>
    /\ ii = 0
    /\ spansPc = "idle"

\* history: no drag was ended yet
NoDrag == [range |-> {}, before |-> {}, after |-> {}, original |-> {}, second |-> FALSE]

DragIdle ==
    /\ onSelect = FALSE
    /\ selected = UndefinedList
    /\ mounted = FALSE
    /\ currentSelectionRange = Undefined
    /\ listeners = <<>>
    /\ lastEvent = [type |-> "none", name |-> UndefinedString]
    /\ onSelectCalls = <<>>
    /\ lastDrag = NoDrag

\* no PartitionStatus is rendered
PartitionStatusIdle == partitionNames = <<>> /\ SpansIdle /\ DragIdle

(***************************************************************************)
(* buildGraphData, step by step                                            *)
(***************************************************************************)
\* the lists buildGraphData is called with: short lists of arbitrary
\* definitions (repeated keys, self-dependencies), and the lists of the
\* enumerated graphs (up to four assets, several dependencies each)
InitBuild ==
    /\ assetNodes \in DefinitionLists
                     \cup {DefinitionsOf(gin[1], gin[2]) : gin \in GraphInputs}
    /\ idx = 1
    /\ data = EmptyGraphData
    /\ assetGraphData = EmptyGraphData
    /\ CycleIdle
    /\ PartitionStatusIdle
    /\ RangeIdle
    /\ LiveIdle

\* one iteration of assetNodes.forEach
ForEachDefinition ==
    /\ idx >= 1
    /\ idx <= Len(assetNodes)
    /\ data' = forEachDefinition(data, assetNodes[idx])
    /\ idx' = idx + 1
    /\ UNCHANGED <<assetNodes, exceptBuild>>

NextBuild == ForEachDefinition

SpecBuild == InitBuild /\ [][NextBuild]_vars

\* buildGraphData has returned `data`
BuildDone == idx = Len(assetNodes) + 1

(***************************************************************************)
(* Properties of buildGraphData                                            *)
(***************************************************************************)
\* every id that occurs in an edge index of d, as a key or as a neighbour
IndexIds(d) ==
    (DOMAIN d.downstream) \cup (DOMAIN d.upstream)
        \cup UNION {d.downstream[k] : k \in DOMAIN d.downstream}
        \cup UNION {d.upstream[k] : k \in DOMAIN d.upstream}

\* the edges <<u, v>> an index holds: v is a key of index[u]
EdgesOf(index) == {p \in (DOMAIN index) \X UNION {index[k] : k \in DOMAIN index} :
                        p[2] \in index[p[1]]}

Reversed(edges) == {<<p[2], p[1]>> : p \in edges}

\* the edges the definitions of a list declare, self-dependencies included
DeclaredEdges(list) ==
    UNION {{<<toGraphId(list[i].dependencyKeys[j]), toGraphId(list[i].assetKey)>> :
                j \in 1..Len(list[i].dependencyKeys)}
           \cup {<<toGraphId(list[i].assetKey), toGraphId(list[i].dependedByKeys[j])>> :
                j \in 1..Len(list[i].dependedByKeys)} : i \in 1..Len(list)}

\* the lists with the same definitions as `list`, in every order
Reorderings(list) ==
    {[i \in 1..Len(list) |-> list[p[i]]] :
        p \in {f \in [1..Len(list) -> 1..Len(list)] :
                \A i, j \in 1..Len(list) : f[i] = f[j] => i = j}}

DistinctGraphIds(list) ==
    \A i, j \in 1..Len(list) :
        toGraphId(list[i].assetKey) = toGraphId(list[j].assetKey) => i = j

\* nodes[id] is built from the last definition of the list with that id
LastWriteWins(list, nodeMap) ==
    /\ DOMAIN nodeMap = {toGraphId(list[i].assetKey) : i \in 1..Len(list)}
    /\ \A i \in 1..Len(list) :
        (\A j \in (i + 1)..Len(list) :
            toGraphId(list[j].assetKey) # toGraphId(list[i].assetKey))
        => nodeMap[toGraphId(list[i].assetKey)] =
            [id |-> toGraphId(list[i].assetKey), assetKey |-> list[i].assetKey,
             definition |-> list[i]]

\* C1: in the graph buildGraphData builds (and after every definition it has
\* processed), d is a key of downstream[u] exactly when u is a key of
\* upstream[d], for all ids u and d.
C1_SymmetricIndexes ==
    \A u \in IndexIds(data), d \in IndexIds(data) :
        d \in GetOrEmpty(data.downstream, u) <=> u \in GetOrEmpty(data.upstream, d)

\* buildGraphData returned a graph with several edges, one id having two
\* downstream neighbours
C1_Witness ==
    /\ BuildDone
    /\ \E u \in DOMAIN data.downstream : Cardinality(data.downstream[u]) >= 2
    /\ Cardinality(EdgesOf(data.upstream)) >= 2

\* C2: the graph buildGraphData returns holds exactly the declared non-self
\* edges, in the downstream index and (reversed) in the upstream index, and
\* no id is its own downstream or upstream neighbour.
C2_DeclaredEdgesOnly ==
    BuildDone =>
        /\ EdgesOf(data.downstream) = {p \in DeclaredEdges(assetNodes) : p[1] # p[2]}
        /\ EdgesOf(data.upstream) = Reversed({p \in DeclaredEdges(assetNodes) : p[1] # p[2]})
        /\ \A id \in IndexIds(data) :
            /\ id \notin GetOrEmpty(data.downstream, id)
            /\ id \notin GetOrEmpty(data.upstream, id)

\* buildGraphData returned for a list in which a definition lists its own key
\* as a dependency and another edge is declared
C2_Witness ==
    /\ BuildDone
    /\ \E p \in DeclaredEdges(assetNodes) : p[1] = p[2]
    /\ \E p \in DeclaredEdges(assetNodes) : p[1] # p[2]

\* C3: every reordering of the definition list gives the same downstream and
\* upstream indexes; the same nodes too when all GraphIds are distinct; and
\* with a shared GraphId nodes[id] is the definition that comes last.
C3_OrderIndependent ==
    BuildDone =>
        /\ LastWriteWins(assetNodes, data.nodes)
        /\ \A list \in Reorderings(assetNodes) :
            /\ buildGraphData(list).downstream = data.downstream
            /\ buildGraphData(list).upstream = data.upstream
            /\ DistinctGraphIds(assetNodes) => buildGraphData(list).nodes = data.nodes
            /\ LastWriteWins(list, buildGraphData(list).nodes)

\* buildGraphData returned for two different definitions of one GraphId that
\* declare different edges from a common upstream id
C3_Witness ==
    /\ BuildDone
    /\ Len(assetNodes) = 2
    /\ toGraphId(assetNodes[1].assetKey) = toGraphId(assetNodes[2].assetKey)
    /\ assetNodes[1] # assetNodes[2]
    /\ data.nodes[toGraphId(assetNodes[1].assetKey)].definition = assetNodes[2]
    /\ \E u \in DOMAIN data.downstream : Cardinality(data.downstream[u]) >= 2

(***************************************************************************)
(* graphHasCycles                                                          *)
(***************************************************************************)
Range(seq) == {seq[i] : i \in 1..Len(seq)}

\* a mutation of searchOutcome: a node already taken from the pool counts as
\* a cycle, on the stack or not
searchOutcomeVisitedIsCycle(searchStack, node, pool) ==
    IF node \in pool THEN "expand" ELSE "cycle"

\* a mutation of searchOutcome: an id that is not in graph.nodes is expanded
\* like a node of the pool
searchOutcomeExpandsForeign(searchStack, node, pool) ==
    IF node \in Range(searchStack) THEN "cycle"
    ELSE IF node \in pool \/ node \notin DOMAIN assetGraphData.nodes THEN "expand"
    ELSE "visited"

\* what search(stack, node) does first: "cycle" (return true, the node is on
\* the stack), "expand" (nodes.delete(node) was true), "visited" (return false)
searchOutcome(searchStack, node, pool) ==
    IF node \in Range(searchStack) THEN "cycle"
    ELSE IF node \in pool THEN "expand"
    ELSE "visited"

\* a mutation of poolAfterDelete: the node stays in the pool
poolAfterDeleteKeeps(pool, node) == pool

\* the pool after nodes.delete(node)
poolAfterDelete(pool, node) == pool \ {node}

\* the call search(stack, node) once nodes.delete(node) returned true:
\* nextStack and the keys `some` has not passed to its callback yet
searchCall(searchStack, node) ==
    [nextStack |-> Append(searchStack, node),
     keys |-> GetOrEmpty(assetGraphData.downstream, node)]

\* the history after one more successful nodes.delete(node)
CountRemoval(node) ==
    Put(removals, node, (IF node \in DOMAIN removals THEN removals[node] ELSE 0) + 1)

InitCycle ==
    /\ BuildIdle
    /\ PartitionStatusIdle
    /\ RangeIdle
    /\ LiveIdle
    /\ \E gin \in GraphInputs : assetGraphData = GraphOf(gin[1], gin[2])
    /\ nodes = DOMAIN assetGraphData.nodes
    /\ calls = <<>>
    /\ hasCycles = FALSE
    /\ cyclePc = "while"
    /\ removals = EmptyMap

\* while (nodes.size !== 0 && !hasCycles): the test holds, and search([], root)
\* is called with some node of the pool
WhileSearchRoot ==
    /\ cyclePc = "while"
    /\ nodes # {}
    /\ ~hasCycles
    /\ \E root \in nodes :
        /\ searchOutcome(<<>>, root, nodes) = "expand"
        /\ nodes' = poolAfterDelete(nodes, root)
        /\ calls' = <<searchCall(<<>>, root)>>
        /\ removals' = CountRemoval(root)
    /\ cyclePc' = "search"
    /\ UNCHANGED <<exceptCycle, hasCycles>>

\* the loop test fails: return hasCycles
WhileExit ==
    /\ cyclePc = "while"
    /\ (nodes = {} \/ hasCycles)
    /\ cyclePc' = "done"
    /\ UNCHANGED <<exceptCycle, nodes, calls, hasCycles, removals>>

\* `some` calls search(nextStack, nextNode) and nextNode is on the stack: true
\* is returned through every active call, to the loop
SearchFindsCycle ==
    /\ cyclePc = "search"
    /\ \E nextNode \in calls[Len(calls)].keys :
        searchOutcome(calls[Len(calls)].nextStack, nextNode, nodes) = "cycle"
    /\ hasCycles' = TRUE
    /\ calls' = <<>>
    /\ cyclePc' = "while"
    /\ UNCHANGED <<exceptCycle, nodes, removals>>

\* `some` calls search(nextStack, nextNode) and nextNode leaves the pool: its
\* downstream keys are searched next
SearchExpands ==
    /\ cyclePc = "search"
    /\ \E nextNode \in calls[Len(calls)].keys :
        /\ searchOutcome(calls[Len(calls)].nextStack, nextNode, nodes) = "expand"
        /\ nodes' = poolAfterDelete(nodes, nextNode)
        /\ calls' = Append([calls EXCEPT ![Len(calls)].keys = @ \ {nextNode}],
                           searchCall(calls[Len(calls)].nextStack, nextNode))
        /\ removals' = CountRemoval(nextNode)
    /\ UNCHANGED <<exceptCycle, hasCycles, cyclePc>>

\* `some` calls search(nextStack, nextNode) and nextNode is neither on the
\* stack nor in the pool: false, `some` goes on
SearchSkips ==
    /\ cyclePc = "search"
    /\ \E nextNode \in calls[Len(calls)].keys :
        /\ searchOutcome(calls[Len(calls)].nextStack, nextNode, nodes) = "visited"
        /\ calls' = [calls EXCEPT ![Len(calls)].keys = @ \ {nextNode}]
    /\ UNCHANGED <<exceptCycle, nodes, hasCycles, cyclePc, removals>>

\* `some` has no key left: the call returns false, the outermost one to the loop
SearchReturnsFalse ==
    /\ cyclePc = "search"
    /\ calls[Len(calls)].keys = {}
    /\ calls' = SubSeq(calls, 1, Len(calls) - 1)
    /\ IF Len(calls) = 1
       THEN hasCycles' = FALSE /\ cyclePc' = "while"
       ELSE UNCHANGED <<hasCycles, cyclePc>>
    /\ UNCHANGED <<exceptCycle, nodes, removals>>

NextCycle ==
    \/ WhileSearchRoot
    \/ WhileExit
    \/ SearchFindsCycle
    \/ SearchExpands
    \/ SearchSkips
    \/ SearchReturnsFalse

SpecCycle == InitCycle /\ [][NextCycle]_vars

\* graphHasCycles runs to its return unless it can take no step
SpecCycleFair == SpecCycle /\ WF_vars(NextCycle)

(***************************************************************************)
(* Paths in an edge set.                                                   *)
(***************************************************************************)
Successors(edges, S) == {p[2] : p \in {q \in edges : q[1] \in S}}

\* the least set containing S and closed under the edges
RECURSIVE Closure(_, _)
Closure(edges, S) ==
    IF Successors(edges, S) \subseteq S THEN S
    ELSE Closure(edges, S \cup Successors(edges, S))

\* v is reached from u by a path of one or more edges
Reaches(edges, u, v) == v \in Closure(edges, Successors(edges, {u}))

HasDirectedCycle(edges) == \E p \in edges : Reaches(edges, p[1], p[1])

(***************************************************************************)
(* graphDirectionOf and opsInRange (AssetGraphExplorer helpers)            *)
(***************************************************************************)
\* the edges of the downstream index between loaded nodes
LoadedEdges(graph) ==
    {p \in EdgesOf(graph.downstream) :
        p[1] \in DOMAIN graph.nodes /\ p[2] \in DOMAIN graph.nodes}

\* every order in which Object.keys may list the ids
IdOrders == Reorderings([i \in 1..Len(KeyOrder) |-> toGraphId(KeyOrder[i])])

\* the stack of graphDirectionOf holds at most this many nodes in the model
StackCap == MaxEdges + 2

\* a mutation of downstreamNodes: .filter(Boolean) is missing
downstreamNodesUnfiltered(graph, id) == GetOrEmpty(graph.downstream, id)

\* [...Object.keys(graph.downstream[id] || {})].map((n) => graph.nodes[n]).filter(Boolean),
\* as the set of the ids of these nodes
downstreamNodes(graph, id) ==
    {n \in GetOrEmpty(graph.downstream, id) : n \in DOMAIN graph.nodes}

\* the same, as a list in the order `order` gives the keys
downstreamList(graph, id, order) ==
    SelectSeq(order, LAMBDA n : n \in downstreamNodes(graph, id))

\* lodash uniq: the first occurrence of each value, in order
RECURSIVE uniq(_)
uniq(list) ==
    IF list = <<>> THEN <<>>
    ELSE LET init == uniq(SubSeq(list, 1, Len(list) - 1))
             last == list[Len(list)]
         IN  IF last \in Range(init) THEN init ELSE Append(init, last)

\* a mutation of normalised: from and to are never swapped
normalisedNever(f, t, seen, dir) == <<f, t>>

\* if (seen.length === 0 && graphDirectionOf(...) === 'upstream') [from, to] = [to, from]
\* (dir is what graphDirectionOf returns for the outermost call)
normalised(f, t, seen, dir) ==
    IF seen = <<>> /\ dir = "upstream" THEN <<t, f>> ELSE <<f, t>>

\* a mutation of fromIsMissing: the test of `from` is left out
fromIsMissingNever(f) == FALSE

\* !from, for a node, null or undefined
fromIsMissing(f) == f \in {Null, UndefinedString}

\* what a call leaves behind that reads a property of null or undefined
ThrownTypeError == <<"TypeError">>

\* a mutation of seenOfCall: only the caller's `from` is handed on
seenOfCallOnlyPredecessor(seen, f) == <<f>>

\* [...seen, from.id], the `seen` of the recursive call
seenOfCall(seen, f) == Append(seen, f)

\* opsInRange({graph, from: f, to: t}, seen), given what graphDirectionOf
\* returns for the outermost call and the order of Object.keys
RECURSIVE opsInRange(_, _, _, _, _, _)
RECURSIVE ledToTarget(_, _, _, _, _, _)
opsInRange(graph, f, t, seen, dir, order) ==
    IF fromIsMissing(f) THEN <<>>
    ELSE IF f \in {Null, UndefinedString} \/ t \in {Null, UndefinedString} THEN ThrownTypeError
    ELSE IF f = t THEN graph.nodes[t].definition.opNames
    ELSE LET ft == normalised(f, t, seen, dir)
         IN  uniq(ledToTarget(graph, ft[1], ft[2], seen,
                              downstreamList(graph, ft[1], order), order))

\* the for loop over `downstream` (the part of it not yet visited)
ledToTarget(graph, f, t, seen, downstream, order) ==
    IF downstream = <<>> THEN <<>>
    ELSE LET node == Head(downstream)
             res == IF node \in Range(seen) THEN <<>>
                    ELSE opsInRange(graph, node, t, seenOfCall(seen, f), "unused", order)
         IN  (IF res # <<>> THEN graph.nodes[f].definition.opNames \o res ELSE <<>>)
                \o ledToTarget(graph, f, t, seen, Tail(downstream), order)

\* the recursive calls that opsInRange({graph, from: f, to: t}, seen) makes,
\* directly or through the calls it makes: for each, the `from` of the caller,
\* the `from` of the call and its `seen`
RECURSIVE recursiveCalls(_, _, _, _, _, _)
RECURSIVE callsOfLoop(_, _, _, _, _, _)
recursiveCalls(graph, f, t, seen, dir, order) ==
    IF fromIsMissing(f) THEN {}
    ELSE IF f \in {Null, UndefinedString} \/ t \in {Null, UndefinedString} THEN {}
    ELSE IF f = t THEN {}
    ELSE LET ft == normalised(f, t, seen, dir)
         IN  callsOfLoop(graph, ft[1], ft[2], seen,
                         downstreamList(graph, ft[1], order), order)

\* the calls of the for loop over `downstream` (the part of it not yet visited)
callsOfLoop(graph, f, t, seen, downstream, order) ==
    IF downstream = <<>> THEN {}
    ELSE LET node == Head(downstream)
             made == IF node \in Range(seen) THEN {}
                     ELSE {[caller |-> f, from |-> node, seen |-> seenOfCall(seen, f)]}
                            \cup recursiveCalls(graph, node, t, seenOfCall(seen, f),
                                                "unused", order)
         IN  made \cup callsOfLoop(graph, f, t, seen, Tail(downstream), order)

\* the graphs the explorer hands to the queries: graphHasCycles returned false
ExplorerGraphs ==
    {g \in {GraphOf(gin[1], gin[2]) : gin \in GraphInputs} :
        ~HasDirectedCycle(LoadedEdges(g))}

\* the graphs of the first three keys, with a cycle or without
AnyGraphs ==
    LET keys == {KeyOrder[i] : i \in 1..3}
    IN  {GraphOf(gin[1], gin[2]) :
            gin \in {g \in GraphInputs :
                        /\ g[1] \subseteq keys
                        /\ \A p \in g[2] : p[1] \in keys /\ p[2] \in keys}}

\* a call of one of the two queries on a graph of `graphs`
InitRangeOn(graphs) ==
    /\ BuildIdle
    /\ PartitionStatusIdle
    /\ CycleIdle
    /\ LiveIdle
    /\ assetGraphData \in graphs
    /\ op \in {"graphDirectionOf", "opsInRange"}
    /\ from \in (DOMAIN assetGraphData.nodes)
                \cup (IF op = "opsInRange" THEN {Null, UndefinedString} ELSE {})
    /\ to \in (DOMAIN assetGraphData.nodes)
              \cup (IF from \in {Null, UndefinedString} THEN {Null} ELSE {})
    /\ stack = <<>>
    /\ direction = "none"
    /\ result = <<>>
    /\ rangePc = "call"
    /\ round = 1
    /\ firstResult = <<>>

\* the calls the explorer makes
InitRange == InitRangeOn(ExplorerGraphs)

\* the calls of the two functions on any graph, with a cycle or without
InitRangeAnyGraph == InitRangeOn(AnyGraphs)

\* graphDirectionOf is called: const stack = [from]
GraphDirectionOfCall ==
    /\ rangePc = "call"
    /\ op = "graphDirectionOf"
    /\ stack' = <<from>>
    /\ rangePc' = "direction"
    /\ UNCHANGED <<exceptRange, op, from, to, direction, result, round, firstResult>>

\* opsInRange returns at once: `from` is null, or from.id === to.id
OpsInRangeReturnsEarly ==
    /\ rangePc = "call"
    /\ op = "opsInRange"
    /\ (fromIsMissing(from) \/ from = to)
    /\ result' = opsInRange(assetGraphData, from, to, <<>>, "unused", <<>>)
    /\ rangePc' = "done"
    /\ UNCHANGED <<exceptRange, op, from, to, stack, direction, round, firstResult>>

\* opsInRange, seen.length === 0: graphDirectionOf({graph, from, to}) is called
OpsInRangeAsksDirection ==
    /\ rangePc = "call"
    /\ op = "opsInRange"
    /\ ~fromIsMissing(from)
    /\ from # to
    /\ stack' = <<from>>
    /\ rangePc' = "direction"
    /\ UNCHANGED <<exceptRange, op, from, to, direction, result, round, firstResult>>

\* a mutation of afterPop: the node stays on the stack
afterPopKeepsNode(s) == s

\* the stack after const node = stack.pop()
afterPop(s) == SubSeq(s, 1, Len(s) - 1)

\* where graphDirectionOf returns to
AfterDirection == IF op = "graphDirectionOf" THEN "done" ELSE "walk"

\* one turn of the while loop: `to` is among the downstream nodes of the popped
\* node, return 'downstream'
DirectionFound ==
    /\ rangePc = "direction"
    /\ stack # <<>>
    /\ to \in downstreamNodes(assetGraphData, stack[Len(stack)])
    /\ direction' = "downstream"
    /\ stack' = afterPop(stack)
    /\ rangePc' = AfterDirection
    /\ UNCHANGED <<exceptRange, op, from, to, result, round, firstResult>>

\* one turn of the while loop: `to` is not among them, they are pushed
DirectionPush ==
    /\ rangePc = "direction"
    /\ stack # <<>>
    /\ to \notin downstreamNodes(assetGraphData, stack[Len(stack)])
    /\ \E order \in IdOrders :
        stack' = afterPop(stack)
                    \o downstreamList(assetGraphData, stack[Len(stack)], order)
    /\ Len(stack') <= StackCap
    /\ UNCHANGED <<exceptRange, op, from, to, direction, result, rangePc, round, firstResult>>

\* the stack is empty: return 'upstream'
DirectionExhausted ==
    /\ rangePc = "direction"
    /\ stack = <<>>
    /\ direction' = "upstream"
    /\ rangePc' = AfterDirection
    /\ UNCHANGED <<exceptRange, op, from, to, stack, result, round, firstResult>>

\* opsInRange goes on with what graphDirectionOf returned, to its return
OpsInRangeWalk ==
    /\ rangePc = "walk"
    /\ \E order \in IdOrders :
        result' = opsInRange(assetGraphData, from, to, <<>>, direction, order)
    /\ rangePc' = "done"
    /\ UNCHANGED <<exceptRange, op, from, to, stack, direction, round, firstResult>>

\* after opsInRange(from, to) the caller asks opsInRange(to, from)
OpsInRangeSwapped ==
    /\ rangePc = "done"
    /\ op = "opsInRange"
    /\ round = 1
    /\ from \notin {Null, UndefinedString}
    /\ firstResult' = result
    /\ from' = to
    /\ to' = from
    /\ round' = 2
    /\ stack' = <<>>
    /\ direction' = "none"
    /\ result' = <<>>
    /\ rangePc' = "call"
    /\ UNCHANGED <<exceptRange, op>>

NextRange ==
    \/ GraphDirectionOfCall
    \/ OpsInRangeReturnsEarly
    \/ OpsInRangeAsksDirection
    \/ DirectionFound
    \/ DirectionPush
    \/ DirectionExhausted
    \/ OpsInRangeWalk
    \/ OpsInRangeSwapped

SpecRange == InitRange /\ [][NextRange]_vars

\* the steps of NextRange but the one that runs opsInRange to its return
NextRangeExceptWalk ==
    \/ GraphDirectionOfCall
    \/ OpsInRangeReturnsEarly
    \/ OpsInRangeAsksDirection
    \/ DirectionFound
    \/ DirectionPush
    \/ DirectionExhausted
    \/ OpsInRangeSwapped

\* the two functions on any graph; a call that can take a step takes it.
\* OpsInRangeWalk is possible exactly at "walk" and leaves it, so that its
\* weak fairness is []<>(rangePc # "walk").
SpecRangeAnyGraph ==
    /\ InitRangeAnyGraph
    /\ [][NextRange]_vars
    /\ WF_vars(NextRangeExceptWalk)
    /\ []<>(rangePc # "walk")

RangeDone == rangePc = "done"

(***************************************************************************)
(* Properties of graphHasCycles                                            *)
(***************************************************************************)
\* the ids of the edge indexes that are not loaded
ForeignIds(graph) == IndexIds(graph) \ DOMAIN graph.nodes

GraphHasCyclesReturned == cyclePc = "done"

\* graphHasCycles returns true exactly when the loaded nodes have a directed
\* cycle among them: the graphs of ExplorerGraphs are those it returns false for
GraphHasCyclesIsLoadedCycle ==
    GraphHasCyclesReturned =>
        (hasCycles <=> HasDirectedCycle(LoadedEdges(assetGraphData)))

\* C4: when every id of the edge indexes is in nodes, graphHasCycles returns
\* true exactly when the downstream index has a directed cycle, whichever
\* roots and key orders the search takes.
C4_DetectsExactlyCycles ==
    (GraphHasCyclesReturned /\ ForeignIds(assetGraphData) = {}) =>
        (hasCycles <=> HasDirectedCycle(EdgesOf(assetGraphData.downstream)))

\* graphHasCycles returned false for a diamond A->B, A->C, B->D, C->D
C4_Witness ==
    /\ GraphHasCyclesReturned
    /\ ~hasCycles
    /\ ForeignIds(assetGraphData) = {}
    /\ \E a, b, c, d \in DOMAIN assetGraphData.nodes :
        /\ Cardinality({a, b, c, d}) = 4
        /\ EdgesOf(assetGraphData.downstream) = {<<a, b>>, <<a, c>>, <<b, d>>, <<c, d>>}

\* C5: graphHasCycles returns on every graph; every id leaves the pool (and
\* is expanded) at most once, only ids of nodes do, and at the return the
\* pool is empty or a cycle was found.
C5_Terminates ==
    /\ [](/\ \A id \in DOMAIN removals :
                removals[id] <= 1 /\ id \in DOMAIN assetGraphData.nodes
          /\ GraphHasCyclesReturned => (nodes = {} \/ hasCycles))
    /\ <>GraphHasCyclesReturned

\* graphHasCycles returned true on a graph with a foreign id, with nodes left
\* in the pool
C5_Witness ==
    /\ GraphHasCyclesReturned
    /\ hasCycles
    /\ nodes # {}
    /\ ForeignIds(assetGraphData) # {}

(***************************************************************************)
(* Properties of graphDirectionOf and opsInRange                           *)
(***************************************************************************)
\* no directed cycle among the loaded nodes
Acyclic(graph) == ~HasDirectedCycle(LoadedEdges(graph))

\* v is reached from u by one or more downstream edges between loaded nodes
ReachesLoaded(graph, u, v) == Reaches(LoadedEdges(graph), u, v)

\* the loaded nodes on some downstream path from u to v, both included
NodesBetween(graph, u, v) ==
    {n \in DOMAIN graph.nodes :
        /\ n = u \/ ReachesLoaded(graph, u, n)
        /\ n = v \/ ReachesLoaded(graph, n, v)}

OpNamesOf(graph, ids) == UNION {Range(graph.nodes[n].definition.opNames) : n \in ids}

\* the op names of the nodes between a and b, whichever of the two is upstream
OpNamesInRange(graph, a, b) ==
    IF a = b THEN OpNamesOf(graph, {a})
    ELSE IF ReachesLoaded(graph, a, b) THEN OpNamesOf(graph, NodesBetween(graph, a, b))
    ELSE IF ReachesLoaded(graph, b, a) THEN OpNamesOf(graph, NodesBetween(graph, b, a))
    ELSE {}

\* the graph is one chain n1 -> n2 -> n3 -> n4 of loaded nodes from a to b
\* whose op names are those of `names`, node by node
IsChainWithOps(graph, a, b, names) ==
    \E n2, n3 \in DOMAIN graph.nodes :
        /\ Cardinality({a, n2, n3, b}) = 4
        /\ EdgesOf(graph.downstream) = {<<a, n2>>, <<n2, n3>>, <<n3, b>>}
        /\ names = uniq(graph.nodes[a].definition.opNames \o graph.nodes[n2].definition.opNames
                        \o graph.nodes[n3].definition.opNames \o graph.nodes[b].definition.opNames)

\* no turn of the loop of graphDirectionOf is held back by StackCap
StackCapNotReached ==
    (rangePc = "direction" /\ stack # <<>>) =>
        Len(stack) - 1 + Cardinality(downstreamNodes(assetGraphData, stack[Len(stack)])) <= StackCap

\* C6: on an acyclic graph graphDirectionOf returns 'downstream' exactly when
\* `to` is reached from `from` by one or more downstream edges between loaded
\* nodes, and 'upstream' in every other case (from = to, unrelated nodes).
C6_DirectionIsReachability ==
    (Acyclic(assetGraphData) /\ direction # "none") =>
        direction = (IF ReachesLoaded(assetGraphData, from, to)
                     THEN "downstream" ELSE "upstream")

\* graphDirectionOf returned 'downstream' for a `to` that is no direct
\* downstream neighbour of `from`, on a graph that names a foreign id
C6_Witness ==
    /\ RangeDone
    /\ op = "graphDirectionOf"
    /\ direction = "downstream"
    /\ to \notin GetOrEmpty(assetGraphData.downstream, from)
    /\ ForeignIds(assetGraphData) # {}

\* C7: on an acyclic graph opsInRange(from, to) returns exactly the op names
\* of the nodes on the downstream paths between the two nodes (none when
\* neither reaches the other), and for a chain A->B->C->D called with (A, D)
\* the op names of A, B, C, D in that order.
C7_OpsOfNodesBetween ==
    (Acyclic(assetGraphData) /\ RangeDone /\ op = "opsInRange" /\ from \notin {Null, UndefinedString}) =>
        /\ Range(result) = OpNamesInRange(assetGraphData, from, to)
        /\ (\E n2, n3 \in DOMAIN assetGraphData.nodes :
                /\ Cardinality({from, n2, n3, to}) = 4
                /\ EdgesOf(assetGraphData.downstream) = {<<from, n2>>, <<n2, n3>>, <<n3, to>>})
            => IsChainWithOps(assetGraphData, from, to, result)

\* C8: on an acyclic graph opsInRange(a, b) and opsInRange(b, a) return the
\* same set of op names, for every pair of loaded nodes a and b.
C8_SymmetricInEndpoints ==
    (Acyclic(assetGraphData) /\ RangeDone /\ op = "opsInRange" /\ round = 2) =>
        Range(result) = Range(firstResult)

\* opsInRange(b, a) returned after opsInRange(a, b), with b downstream of a
\* through an intermediate node, and the result is not empty
C8_Witness ==
    /\ RangeDone
    /\ op = "opsInRange"
    /\ round = 2
    /\ result # <<>>
    /\ direction = "upstream"
    /\ from \notin GetOrEmpty(assetGraphData.downstream, to)
    /\ ReachesLoaded(assetGraphData, to, from)

\* C7 holds of the calls whose two end nodes both have op names
OpsOfNodesBetweenWhenEndsHaveOps ==
    (/\ from \notin {Null, UndefinedString}
     /\ assetGraphData.nodes[to].definition.opNames # <<>>
     /\ assetGraphData.nodes[from].definition.opNames # <<>>)
        => C7_OpsOfNodesBetween

(***************************************************************************)
(* buildLiveDataForNode                                                    *)
(***************************************************************************)
\* the members of RunStatus the sources name
RunStatuses == {"QUEUED", "STARTED", "SUCCESS", "FAILURE", "CANCELING", "CANCELED"}

RunIds == {"run1", "run2"}

\* AssetGraphLiveQuery_assetNodes_assetMaterializations, newest first
MaterializationLists ==
    UNION {[1..n -> {[runId |-> r] : r \in RunIds}] : n \in 0..MaxEvents}

\* AssetGraphLiveQuery_assetNodes_assetObservations
ObservationLists == {<<>>, <<[runId |-> "run1"]>>}

OpNameLists == {<<>>, <<"op_a">>, <<"op_b", "op_c">>}

\* AssetLiveNode, the fields buildLiveDataForNode reads
AssetLiveNodes ==
    {[assetMaterializations |-> ms, assetObservations |-> os, opNames |-> ops,
      currentLogicalVersion |-> Null, projectedLogicalVersion |-> Null,
      freshnessInfo |-> NullObj, freshnessPolicy |-> NullObj] :
        ms \in MaterializationLists, os \in ObservationLists, ops \in OpNameLists}

\* AssetLatestInfo; buildLiveData passes undefined when find() matches none
AssetLatestInfos ==
    {Undefined}
    \cup {[latestRun |-> run, inProgressRunIds |-> <<>>, unstartedRunIds |-> <<>>] :
            run \in {NullObj} \cup {[id |-> r, status |-> st] : r \in RunIds, st \in RunStatuses}}

\* list[0] || null
firstOrNull(list) == IF Len(list) > 0 THEN list[1] ELSE NullObj

\* assetLatestInfo?.latestRun ? assetLatestInfo.latestRun : null
latestRunOf(info) ==
    IF info # Undefined /\ info.latestRun # NullObj THEN info.latestRun ELSE NullObj

\* a mutation of runWhichFailedToMaterializeOf: the run ids are not compared
runWhichFailedIgnoringRunId(lastMaterialization, latestRunForAsset) ==
    IF latestRunForAsset # NullObj /\ latestRunForAsset.status = "FAILURE"
    THEN latestRunForAsset
    ELSE NullObj

\* a mutation of runWhichFailedToMaterializeOf: the status is not tested
runWhichFailedIgnoringStatus(lastMaterialization, latestRunForAsset) ==
    IF /\ latestRunForAsset # NullObj
       /\ (lastMaterialization = NullObj \/ lastMaterialization.runId # latestRunForAsset.id)
    THEN latestRunForAsset
    ELSE NullObj

\* (latestRunForAsset?.status === 'FAILURE' &&
\*   (!lastMaterialization || lastMaterialization.runId !== latestRunForAsset?.id) &&
\*   latestRunForAsset) || null
runWhichFailedToMaterializeOf(lastMaterialization, latestRunForAsset) ==
    IF /\ latestRunForAsset # NullObj
       /\ latestRunForAsset.status = "FAILURE"
       /\ (lastMaterialization = NullObj \/ lastMaterialization.runId # latestRunForAsset.id)
    THEN latestRunForAsset
    ELSE NullObj

\* a mutation of lastMaterializationRunStatusOf: the run ids are not compared
lastMaterializationRunStatusAnyRun(lastMaterialization, latestRunForAsset) ==
    IF latestRunForAsset # NullObj /\ lastMaterialization # NullObj
    THEN latestRunForAsset.status
    ELSE Null

\* latestRunForAsset && lastMaterialization?.runId === latestRunForAsset?.id
\*   ? latestRunForAsset.status : null
lastMaterializationRunStatusOf(lastMaterialization, latestRunForAsset) ==
    IF /\ latestRunForAsset # NullObj
       /\ lastMaterialization # NullObj
       /\ lastMaterialization.runId = latestRunForAsset.id
    THEN latestRunForAsset.status
    ELSE Null

buildLiveDataForNode(node, info) ==
    [lastMaterialization |-> firstOrNull(node.assetMaterializations),
     lastMaterializationRunStatus |->
        lastMaterializationRunStatusOf(firstOrNull(node.assetMaterializations), latestRunOf(info)),
     lastObservation |-> firstOrNull(node.assetObservations),
     currentLogicalVersion |-> node.currentLogicalVersion,
     projectedLogicalVersion |-> node.projectedLogicalVersion,
     stepKey |-> IF Len(node.opNames) > 0 THEN node.opNames[1] ELSE UndefinedString,
     freshnessInfo |-> node.freshnessInfo,
     freshnessPolicy |-> node.freshnessPolicy,
     inProgressRunIds |-> IF info # Undefined THEN info.inProgressRunIds ELSE <<>>,
     unstartedRunIds |-> IF info # Undefined THEN info.unstartedRunIds ELSE <<>>,
     runWhichFailedToMaterialize |->
        runWhichFailedToMaterializeOf(firstOrNull(node.assetMaterializations), latestRunOf(info))]

InitLive ==
    /\ BuildIdle
    /\ PartitionStatusIdle
    /\ CycleIdle
    /\ RangeIdle
    /\ assetGraphData = EmptyGraphData
    /\ assetNode \in AssetLiveNodes
    /\ assetLatestInfo \in AssetLatestInfos
    /\ liveData = NullObj

\* buildLiveDataForNode(assetNode, assetLatestInfo) is called and returns
BuildLiveDataForNode ==
    /\ liveData = NullObj
    /\ assetNode # NullObj
    /\ liveData' = buildLiveDataForNode(assetNode, assetLatestInfo)
    /\ UNCHANGED <<exceptLive, assetNode, assetLatestInfo>>

NextLive == BuildLiveDataForNode

SpecLive == InitLive /\ [][NextLive]_vars

LiveDataReturned == liveData # NullObj

(***************************************************************************)
(* Properties of buildLiveDataForNode                                      *)
(***************************************************************************)
\* C9: in every result of buildLiveDataForNode, runWhichFailedToMaterialize
\* and lastMaterializationRunStatus are not both non-null.
C9_MutuallyExclusive ==
    LiveDataReturned =>
        ~(/\ liveData.runWhichFailedToMaterialize # NullObj
          /\ liveData.lastMaterializationRunStatus # Null)

\* buildLiveDataForNode returned for a failed latest run that produced the
\* last materialization: the status is set, the failed run is not
C9_Witness ==
    /\ LiveDataReturned
    /\ assetLatestInfo # Undefined
    /\ assetLatestInfo.latestRun # NullObj
    /\ assetLatestInfo.latestRun.status = "FAILURE"
    /\ Len(assetNode.assetMaterializations) = 2
    /\ assetNode.assetMaterializations[1].runId = assetLatestInfo.latestRun.id
    /\ assetNode.assetMaterializations[2].runId # assetLatestInfo.latestRun.id
    /\ liveData.lastMaterializationRunStatus = "FAILURE"
    /\ liveData.runWhichFailedToMaterialize = NullObj

\* C10: runWhichFailedToMaterialize is the latest run exactly when a latest
\* run exists, its status is FAILURE, and the materialization list is empty
\* or its first entry's runId differs from the latest run's id; else null.
C10_RunWhichFailed ==
    LiveDataReturned =>
        IF /\ assetLatestInfo # Undefined
           /\ assetLatestInfo.latestRun # NullObj
           /\ assetLatestInfo.latestRun.status = "FAILURE"
           /\ \/ assetNode.assetMaterializations = <<>>
              \/ assetNode.assetMaterializations[1].runId # assetLatestInfo.latestRun.id
        THEN liveData.runWhichFailedToMaterialize = assetLatestInfo.latestRun
        ELSE liveData.runWhichFailedToMaterialize = NullObj

\* buildLiveDataForNode returned the failed latest run, which made an older
\* materialization but not the first of the list
C10_Witness ==
    /\ LiveDataReturned
    /\ liveData.runWhichFailedToMaterialize # NullObj
    /\ liveData.runWhichFailedToMaterialize = assetLatestInfo.latestRun
    /\ Len(assetNode.assetMaterializations) = 2
    /\ assetNode.assetMaterializations[1].runId # assetLatestInfo.latestRun.id
    /\ assetNode.assetMaterializations[2].runId = assetLatestInfo.latestRun.id

\* C11: lastMaterializationRunStatus is the latest run's status exactly when
\* a latest run exists, a last materialization exists and its runId equals
\* the latest run's id; otherwise it is null (in particular for an empty
\* materialization list and for a missing latest-run info).
C11_LastMaterializationRunStatus ==
    LiveDataReturned =>
        /\ IF /\ assetLatestInfo # Undefined
              /\ assetLatestInfo.latestRun # NullObj
              /\ assetNode.assetMaterializations # <<>>
              /\ assetNode.assetMaterializations[1].runId = assetLatestInfo.latestRun.id
           THEN liveData.lastMaterializationRunStatus = assetLatestInfo.latestRun.status
           ELSE liveData.lastMaterializationRunStatus = Null
        /\ assetNode.assetMaterializations = <<>> => liveData.lastMaterializationRunStatus = Null
        /\ assetLatestInfo = Undefined => liveData.lastMaterializationRunStatus = Null

\* buildLiveDataForNode returned for a SUCCESS latest run that made the last
\* materialization: the status is SUCCESS and no failed run is reported
C11_Witness ==
    /\ LiveDataReturned
    /\ assetLatestInfo # Undefined
    /\ assetLatestInfo.latestRun # NullObj
    /\ assetLatestInfo.latestRun.status = "SUCCESS"
    /\ assetNode.assetMaterializations # <<>>
    /\ assetNode.assetMaterializations[1].runId = assetLatestInfo.latestRun.id
    /\ liveData.lastMaterializationRunStatus = "SUCCESS"
    /\ liveData.runWhichFailedToMaterialize = NullObj

\* C12: for an empty op-name list buildLiveDataForNode returns and the
\* result's stepKey is the empty string; for a non-empty list stepKey is the
\* first op name.
C12_StepKey ==
    LiveDataReturned =>
        liveData.stepKey = (IF assetNode.opNames = <<>> THEN "" ELSE assetNode.opNames[1])

\* the part of C12 the code does meet: the call returns for every snapshot,
\* and stepKey is the first op name when there is one
StepKeyOfNonEmptyOpNames ==
    /\ ENABLED BuildLiveDataForNode \/ LiveDataReturned
    /\ LiveDataReturned /\ assetNode.opNames # <<>> => liveData.stepKey = assetNode.opNames[1]
    /\ LiveDataReturned /\ assetNode.opNames = <<>> => liveData.stepKey = UndefinedString

(***************************************************************************)
(* PartitionStatus: the spans of one render                                *)
(***************************************************************************)
\* enum PartitionState
PartitionStates ==
    {"missing", "success", "success_missing", "failure", "failure_missing", "queued",
     "started"}

\* partition names: the keys of a partition set, pairwise different
PartitionNamePool == <<"p1", "p2", "p3", "p4", "p5">>

PartitionNameLists ==
    {[i \in 1..n |-> PartitionNamePool[i]] : n \in 0..MaxPartitions}

\* partitionNames.map((name, idx) => [name, partitionStateForKey(name, idx)])
statusEntries(names, stateForKey) ==
    [i \in 1..Len(names) |-> <<names[i], stateForKey[i]>>]

\* Object.fromEntries: a later entry of a key replaces an earlier one
fromEntries(entries) ==
    [k \in {entries[i][1] : i \in 1..Len(entries)} |->
        LET last == CHOOSE i \in 1..Len(entries) :
                        /\ entries[i][1] = k
                        /\ \A j \in (i + 1)..Len(entries) : entries[j][1] # k
        IN  entries[last][2]]

\* keys[ii] in keyStatus ? keyStatus[keys[ii]] : PartitionState.MISSING
statusOfKey(keys, keyStatus, i0) ==
    IF keys[i0 + 1] \in DOMAIN keyStatus THEN keyStatus[keys[i0 + 1]] ELSE "missing"

NewSpan(i0, status) == [startIdx |-> i0, endIdx |-> i0, status |-> status]

\* a mutation of pushOrExtend: the status of the last span is not compared
pushOrExtendAlwaysExtends(spansSoFar, i0, status) ==
    IF spansSoFar = <<>>
    THEN Append(spansSoFar, NewSpan(i0, status))
    ELSE [spansSoFar EXCEPT ![Len(spansSoFar)].endIdx = i0]

\* a mutation of pushOrExtend: an extended span keeps its endIdx
pushOrExtendKeepsEnd(spansSoFar, i0, status) ==
    IF spansSoFar = <<>> \/ spansSoFar[Len(spansSoFar)].status # status
    THEN Append(spansSoFar, NewSpan(i0, status))
    ELSE spansSoFar

\* a mutation of pushOrExtend: the last span is never extended
pushOrExtendAlwaysPushes(spansSoFar, i0, status) ==
    Append(spansSoFar, NewSpan(i0, status))

\* the body of the loop of _partitionsToSpans
pushOrExtend(spansSoFar, i0, status) ==
    IF spansSoFar = <<>> \/ spansSoFar[Len(spansSoFar)].status # status
    THEN Append(spansSoFar, NewSpan(i0, status))
    ELSE [spansSoFar EXCEPT ![Len(spansSoFar)].endIdx = i0]

\* splitPartitions: one span per partition
splitSpans(names, stateForKey) ==
    [i \in 1..Len(names) |-> NewSpan(i - 1, stateForKey[i])]

\* the second argument of the call of _partitionsToSpans
keyStatusOfRender == fromEntries(statusEntries(partitionNames, partitionStateForKey))

InitSpans ==
    /\ BuildIdle
    /\ CycleIdle
    /\ RangeIdle
    /\ LiveIdle
    /\ DragIdle
    /\ assetGraphData = EmptyGraphData
    /\ partitionNames \in PartitionNameLists
    /\ partitionStateForKey \in [1..Len(partitionNames) -> PartitionStates]
    /\ splitPartitions \in BOOLEAN
    /\ spans = <<>>
    /\ ii = 0
    /\ spansPc = "render"

\* const spans = splitPartitions ? partitionNames.map(...) : ...
RenderSplitSpans ==
    /\ spansPc = "render"
    /\ splitPartitions
    /\ spans' = splitSpans(partitionNames, partitionStateForKey)
    /\ spansPc' = "done"
    /\ UNCHANGED <<exceptSpans, partitionNames, partitionStateForKey, splitPartitions, ii>>

\* ... : _partitionsToSpans(partitionNames, Object.fromEntries(...)) is called
PartitionsToSpansCall ==
    /\ spansPc = "render"
    /\ ~splitPartitions
    /\ spans' = <<>>
    /\ ii' = 0
    /\ spansPc' = "loop"
    /\ UNCHANGED <<exceptSpans, partitionNames, partitionStateForKey, splitPartitions>>

\* one iteration of for (let ii = 0; ii < keys.length; ii++)
PartitionsToSpansIteration ==
    /\ spansPc = "loop"
    /\ ii < Len(partitionNames)
    /\ spans' = pushOrExtend(spans, ii, statusOfKey(partitionNames, keyStatusOfRender, ii))
    /\ ii' = ii + 1
    /\ UNCHANGED <<exceptSpans, partitionNames, partitionStateForKey, splitPartitions, spansPc>>

\* the loop test fails: return spans
PartitionsToSpansReturn ==
    /\ spansPc = "loop"
    /\ ~(ii < Len(partitionNames))
    /\ spansPc' = "done"
    /\ UNCHANGED <<exceptSpans, partitionNames, partitionStateForKey, splitPartitions, spans, ii>>

NextSpans ==
    \/ RenderSplitSpans
    \/ PartitionsToSpansCall
    \/ PartitionsToSpansIteration
    \/ PartitionsToSpansReturn

SpecSpans == InitSpans /\ [][NextSpans]_vars

\* _partitionsToSpans returned
PartitionsToSpansReturned == spansPc = "done" /\ ~splitPartitions

(***************************************************************************)
(* Properties of the spans                                                 *)
(***************************************************************************)
\* C13: for a partition-name sequence of length n, the spans returned by
\* _partitionsToSpans partition 0..n-1: the first starts at 0, the last ends
\* at n-1, every span has startIdx <= endIdx, each next span starts at the
\* previous endIdx + 1, and the list is empty exactly when n = 0.
C13_SpansPartitionTheRange ==
    PartitionsToSpansReturned =>
        LET n == Len(partitionNames) IN
        /\ (spans = <<>>) <=> (n = 0)
        /\ spans # <<>> => spans[1].startIdx = 0 /\ spans[Len(spans)].endIdx = n - 1
        /\ \A k \in 1..Len(spans) : spans[k].startIdx <= spans[k].endIdx
        /\ \A k \in 1..(Len(spans) - 1) : spans[k + 1].startIdx = spans[k].endIdx + 1

\* _partitionsToSpans returned several spans, one of them longer than one
\* partition
C13_Witness ==
    /\ PartitionsToSpansReturned
    /\ Len(partitionNames) = 3
    /\ Len(spans) = 2
    /\ spans[1].endIdx = 1
    /\ spans[2].startIdx = 2

PointerIndexes == -1..Len(partitionNames)

\* toPartitionName: partitionNames[index], undefined outside the array
toPartitionName(names, k) ==
    IF 0 <= k /\ k < Len(names) THEN names[k + 1] ELSE UndefinedString

\* !name, for a name or undefined
Falsy(name) == name = UndefinedString

\* Array.prototype.indexOf
indexOf(list, x) ==
    IF \E i \in 1..Len(list) : list[i] = x
    THEN (CHOOSE i \in 1..Len(list) : list[i] = x /\ \A j \in 1..(i - 1) : list[j] # x) - 1
    ELSE -1

\* Array.prototype.includes
includes(list, x) == \E i \in 1..Len(list) : list[i] = x

MinOf(a, b) == IF a <= b THEN a ELSE b

MaxOf(a, b) == IF a >= b THEN a ELSE b

\* Array.prototype.slice(a, b): a negative index counts from the end
slice(list, a, b) ==
    LET n == Len(list)
        lo == IF a < 0 THEN MaxOf(n + a, 0) ELSE MinOf(a, n)
        hi == IF b < 0 THEN MaxOf(n + b, 0) ELSE MinOf(b, n)
    IN  [i \in 1..MaxOf(hi - lo, 0) |-> list[lo + i]]

\* a mutation of getRangeSelection: the two indexes are not ordered
getRangeSelectionForwardOnly(names, start, endName) ==
    slice(names, indexOf(names, start), indexOf(names, endName) + 1)

getRangeSelection(names, start, endName) ==
    LET startIdx == indexOf(names, start)
        endIdx == indexOf(names, endName)
    IN  slice(names, MinOf(startIdx, endIdx), MaxOf(startIdx, endIdx) + 1)

\* Array.from(new Set(list)): the members in the order of their insertion
setInsertionOrder(list) == uniq(list)

\* a mutation of onSelectArgument: the new Set starts empty, and the range is
\* passed alone
onSelectArgumentOnlyTheRange(names, closure, name) ==
    getRangeSelection(names, closure.currentSelectionRange.start,
                      IF Falsy(name) THEN closure.currentSelectionRange.end ELSE name)

\* what setSelectionRange passes to onSelect
onSelectArgument(names, closure, name) ==
    LET range == closure.currentSelectionRange
        currentSelection ==
            getRangeSelection(names, range.start, IF Falsy(name) THEN range.end ELSE name)
        allSelected ==
            \A i \in 1..Len(currentSelection) : includes(closure.selected, currentSelection[i])
    IN  IF allSelected
        THEN SelectSeq(closure.selected, LAMBDA x : ~includes(currentSelection, x))
        ELSE setInsertionOrder(closure.selected \o currentSelection)

\* history: the drag a call of setSelectionRange ends: the names between
\* its two ends, the selection it read and the one it passed to onSelect; it
\* is the second of two identical drags in a row when the drag ended before
\* it was over the same names, not all of them selected then, and left the
\* selection this one reads (`original` is the selection before the two)
commitOf(names, closure, name, previous) ==
    LET range == closure.currentSelectionRange
        R == Range(getRangeSelection(names, range.start,
                                     IF Falsy(name) THEN range.end ELSE name))
        S == Range(closure.selected)
        repeats == /\ previous.range = R
                   /\ previous.after = S
                   /\ ~(R \subseteq previous.before)
    IN  [range |-> R,
         before |-> S,
         after |-> Range(onSelectArgument(names, closure, name)),
         original |-> IF repeats THEN previous.before ELSE S,
         second |-> repeats]

\* what setHoveredSelectionRange passes to setCurrentSelectionRange
hoveredRange(closure, name) ==
    [start |-> closure.currentSelectionRange.start,
     end |-> IF Falsy(name) THEN closure.currentSelectionRange.end ELSE name]

\* the effect passes its guard: if (!currentSelectionRange || !onSelect || !selected) return
effectRegisters(range, sel) == range # Undefined /\ onSelect /\ sel # UndefinedList

\* the two listeners of one effect, with the values they close over
closureOf(range, sel) == [currentSelectionRange |-> range, selected |-> sel]

\* window.removeEventListener for the pair of one effect
removeListener(list, closure) ==
    IF includes(list, closure)
    THEN LET at == indexOf(list, closure) + 1
         IN  SubSeq(list, 1, at - 1) \o SubSeq(list, at + 1, Len(list))
    ELSE list

\* a mutation of afterCleanup: the effect returns no cleanup
afterCleanupNothingRemoved(list) == list

\* the cleanup of the effect of the current render
afterCleanup(list) ==
    IF effectRegisters(currentSelectionRange, selected)
    THEN removeListener(list, closureOf(currentSelectionRange, selected))
    ELSE list

\* the effect of the render with the new state and props
afterEffect(list, range, sel) ==
    IF effectRegisters(range, sel) THEN Append(list, closureOf(range, sel)) ELSE list

\* a re-render in which a dependency of the effect changed
commit(range, sel) == afterEffect(afterCleanup(listeners), range, sel)

\* selected: names of the partition list, each once, in any order
SelectedLists(names) ==
    {sel \in UNION {[1..n -> Range(names)] : n \in 0..Len(names)} :
        \A i, j \in 1..Len(sel) : i # j => sel[i] # sel[j]}

EventOf(type, name) == [type |-> type, name |-> name]

\* the component is mounted, no drag is open
InitDrag ==
    /\ BuildIdle
    /\ CycleIdle
    /\ RangeIdle
    /\ LiveIdle
    /\ SpansIdle
    /\ assetGraphData = EmptyGraphData
    /\ partitionNames \in PartitionNameLists
    /\ onSelect \in BOOLEAN
    /\ selected \in SelectedLists(partitionNames) \cup {UndefinedList}
    /\ mounted = TRUE
    /\ currentSelectionRange = Undefined
    /\ listeners = <<>>
    /\ lastEvent = EventOf("mount", UndefinedString)
    /\ onSelectCalls = <<>>
    /\ lastDrag = NoDrag

\* _onMouseDown, defined when onSelect is supplied
OnMouseDown ==
    /\ mounted
    /\ onSelect
    /\ \E k \in PointerIndexes :
          LET name == toPartitionName(partitionNames, k) IN
          /\ lastEvent' = EventOf("mousedown", name)
          /\ IF Falsy(name)
             THEN UNCHANGED <<currentSelectionRange, listeners>>
             ELSE /\ currentSelectionRange' = [start |-> name, end |-> name]
                  /\ listeners' = commit(currentSelectionRange', selected)
    /\ onSelectCalls' = <<>>
    /\ UNCHANGED <<exceptDrag, partitionNames, onSelect, selected, mounted, lastDrag>>

\* a mousemove on window: the registered setHoveredSelectionRange listeners run
WindowMouseMove ==
    /\ \E k \in PointerIndexes :
          LET name == toPartitionName(partitionNames, k) IN
          /\ lastEvent' = EventOf("mousemove", name)
          /\ IF listeners = <<>>
             THEN UNCHANGED <<currentSelectionRange, listeners>>
             ELSE /\ currentSelectionRange' = hoveredRange(listeners[Len(listeners)], name)
                  /\ listeners' = commit(currentSelectionRange', selected)
    /\ onSelectCalls' = <<>>
    /\ UNCHANGED <<exceptDrag, partitionNames, onSelect, selected, mounted, lastDrag>>

\* a mouseup on window: the registered setSelectionRange listeners run
WindowMouseUp ==
    /\ \E k \in PointerIndexes :
          LET name == toPartitionName(partitionNames, k) IN
          /\ lastEvent' = EventOf("mouseup", name)
          /\ onSelectCalls' =
                [i \in 1..Len(listeners) |-> onSelectArgument(partitionNames, listeners[i], name)]
          /\ IF listeners = <<>>
             THEN UNCHANGED <<currentSelectionRange, listeners, lastDrag>>
             ELSE /\ currentSelectionRange' = Undefined
                  /\ listeners' = commit(currentSelectionRange', selected)
                  /\ lastDrag' = commitOf(partitionNames, listeners[Len(listeners)],
                                          name, lastDrag)
    /\ UNCHANGED <<exceptDrag, partitionNames, onSelect, selected, mounted>>

\* the parent renders the component again, with a new `selected` array: the
\* same selection, or the one onSelect has just received
ParentRenders ==
    /\ mounted
    /\ selected # UndefinedList
    /\ lastEvent.type # "render"
    /\ \E sel \in {selected} \cup Range(onSelectCalls) :
          /\ selected' = sel
          /\ listeners' = commit(currentSelectionRange, sel)
    /\ lastEvent' = EventOf("render", UndefinedString)
    /\ onSelectCalls' = <<>>
    /\ UNCHANGED <<exceptDrag, partitionNames, onSelect, mounted, currentSelectionRange, lastDrag>>

\* the component unmounts: the cleanup of the last effect runs
Unmount ==
    /\ mounted
    /\ mounted' = FALSE
    /\ listeners' = afterCleanup(listeners)
    /\ lastEvent' = EventOf("unmount", UndefinedString)
    /\ onSelectCalls' = <<>>
    /\ UNCHANGED <<exceptDrag, partitionNames, onSelect, selected, currentSelectionRange, lastDrag>>

NextDrag ==
    \/ OnMouseDown
    \/ WindowMouseMove
    \/ WindowMouseUp
    \/ ParentRenders
    \/ Unmount

SpecDrag == InitDrag /\ [][NextDrag]_vars

(***************************************************************************)
(* Properties of the drag                                                  *)
(***************************************************************************)
\* the position of a name in the partition list
PositionOf(name) == CHOOSE i \in 1..Len(partitionNames) : partitionNames[i] = name

\* the names in the closed index interval between two names, in either order
NamesBetween(a, b) ==
    {partitionNames[i] : i \in MinOf(PositionOf(a), PositionOf(b))
                                ..MaxOf(PositionOf(a), PositionOf(b))}

\* the selection a committed drag over R asks for, S being the selection
Toggled(S, R) == IF R \subseteq S THEN S \ R ELSE S \cup R

\* a list that holds each of its members once
NoDuplicates(list) == \A i, j \in 1..Len(list) : i # j => list[i] # list[j]

\* a pointer-up is delivered while the listeners of a drag are registered
PointerUpOfDrag == listeners # <<>> /\ lastEvent'.type = "mouseup"

\* the name the drag ends at: the one under the pointer, else the range's end
EndOfDrag == IF Falsy(lastEvent'.name) THEN currentSelectionRange.end ELSE lastEvent'.name

\* C15: on the pointer-up of a drag from start to end, with R the names in
\* the closed interval between them and S the selection: onSelect receives
\* exactly S minus R when all of R is in S, and exactly S union R otherwise;
\* the drag with start and end swapped gives the same.
C15_PointerUpTogglesRange ==
    [][PointerUpOfDrag =>
          LET R == NamesBetween(currentSelectionRange.start, EndOfDrag)
              swapped == [start |-> EndOfDrag, end |-> currentSelectionRange.start]
          IN  /\ Len(onSelectCalls') = 1
              /\ Range(onSelectCalls'[1]) = Toggled(Range(selected), R)
              /\ NoDuplicates(onSelectCalls'[1])
              /\ onSelectCalls'[1] =
                    onSelectArgument(partitionNames, closureOf(swapped, selected),
                                     UndefinedString)]_vars

\* a pointer-up has ended a drag over p1 and p2 while only p3 was selected:
\* onSelect received the union
C15_Witness ==
    /\ lastEvent.type = "mouseup"
    /\ selected = <<"p3">>
    /\ onSelectCalls = << <<"p3", "p1", "p2">> >>
    /\ currentSelectionRange = Undefined


\* the steps of the drag lifecycle, for a mounted component with onSelect
DragLifecycleStep ==
    /\ lastEvent'.type = "mousedown" /\ ~Falsy(lastEvent'.name) =>
          currentSelectionRange' = [start |-> lastEvent'.name, end |-> lastEvent'.name]
    /\ lastEvent'.type = "mousemove" /\ currentSelectionRange # Undefined =>
          /\ currentSelectionRange' # Undefined
          /\ currentSelectionRange'.start = currentSelectionRange.start
          /\ Falsy(lastEvent'.name) => currentSelectionRange'.end = currentSelectionRange.end
    /\ lastEvent'.type = "mouseup" /\ currentSelectionRange # Undefined =>
          /\ Len(onSelectCalls') = 1
          /\ currentSelectionRange' = Undefined

\* C16: whenever onSelect is supplied, a pointer-down over partition i opens
\* the range {start: i, end: i}; a pointer-move changes only end (keeping it
\* when the pointer is outside the strip) and never start; the next
\* pointer-up calls onSelect exactly once and closes the range.
C16_DragLifecycle == [][mounted /\ onSelect => DragLifecycleStep]_vars

\* the part of C16 the code meets: the lifecycle when `selected` is supplied
\* too, where a pointer-move over a partition also moves end to it
DragLifecycleWhenSelectedSupplied ==
    [][mounted /\ onSelect /\ selected # UndefinedList =>
          /\ DragLifecycleStep
          /\ /\ lastEvent'.type = "mousemove"
             /\ currentSelectionRange # Undefined
             /\ ~Falsy(lastEvent'.name)
             => currentSelectionRange'.end = lastEvent'.name]_vars

\* without `selected` the range opened by a pointer-down outlives pointer-up
RangeOpenAfterPointerUp ==
    /\ mounted
    /\ onSelect
    /\ lastEvent.type = "mouseup"
    /\ currentSelectionRange # Undefined


\* C17: the window listeners are registered only while a SelectionRange is
\* open, at most one pair at any time across re-renders and range updates,
\* and none remains once the range is closed or the component is unmounted.
C17_ListenersScopedToDrag ==
    /\ Len(listeners) <= 1
    /\ listeners # <<>> => mounted /\ currentSelectionRange # Undefined
    /\ listeners # <<>> => listeners[1] = closureOf(currentSelectionRange, selected)

\* the parent has rendered the component again during a drag whose end has
\* moved: one pair of listeners is registered, for the current range
C17_Witness ==
    /\ lastEvent.type = "render"
    /\ currentSelectionRange # Undefined
    /\ currentSelectionRange.start # currentSelectionRange.end
    /\ Len(listeners) = 1

\* the component was unmounted during a drag: no listener is left
UnmountedDuringDrag ==
    /\ ~mounted
    /\ currentSelectionRange # Undefined
    /\ onSelect
    /\ selected # UndefinedList
    /\ listeners = <<>>

(***************************************************************************)
(* Further properties of graphDirectionOf and opsInRange                   *)
(***************************************************************************)
\* C18: opsInRange called with a null or undefined `from` returns the empty
\* list, without reading the graph or `to` (here `to` may be null, which no
\* read survives) and without failing.
C18_MissingFromGivesEmpty ==
    (op = "opsInRange" /\ from \in {Null, UndefinedString}) =>
        /\ rangePc \in {"call", "done"}
        /\ stack = <<>>
        /\ direction = "none"
        /\ RangeDone => result = <<>> /\ result # ThrownTypeError

\* opsInRange returned for an undefined `from` and a null `to`
C18_Witness ==
    /\ op = "opsInRange"
    /\ RangeDone
    /\ from = UndefinedString
    /\ to = Null
    /\ result = <<>>


\* `from` reaches a cycle among the loaded nodes and does not reach `to`
CycleDownstreamOfFrom ==
    /\ from \in DOMAIN assetGraphData.nodes
    /\ \E n \in DOMAIN assetGraphData.nodes :
          /\ n = from \/ ReachesLoaded(assetGraphData, from, n)
          /\ ReachesLoaded(assetGraphData, n, n)
    /\ ~ReachesLoaded(assetGraphData, from, to)

\* the call has returned, and for opsInRange the call with the two nodes
\* swapped has returned as well
RangeFinished ==
    /\ RangeDone
    /\ op = "graphDirectionOf" \/ round = 2 \/ fromIsMissing(from)

\* C19: graphDirectionOf and opsInRange return on every graph, acyclic or
\* not, in particular when `from` reaches a cycle among the loaded nodes and
\* does not reach `to`.
C19_TerminatesOnEveryGraph == <>RangeFinished

\* C19 as the code has it: the two functions return on every graph in which
\* the loaded nodes form no cycle.
C19_TerminatesWithoutCycle == Acyclic(assetGraphData) => <>RangeFinished

\* both calls of opsInRange have returned on a graph without a cycle whose
\* search of the direction had to push nodes
C19_Witness ==
    /\ RangeFinished
    /\ Acyclic(assetGraphData)
    /\ op = "opsInRange"
    /\ round = 2
    /\ Cardinality(LoadedEdges(assetGraphData)) >= 3
    /\ result # <<>>

\* graphDirectionOf is in its loop on a graph with a cycle downstream of
\* `from` that does not reach `to`, back at the stack it started with
GraphDirectionOfInCycle ==
    /\ op = "graphDirectionOf"
    /\ rangePc = "direction"
    /\ CycleDownstreamOfFrom
    /\ stack # <<>>
    /\ stack[Len(stack)] # from


(***************************************************************************)
(* AssetGraphExplorer: graphHasCycles, then the shift-click range queries  *)
(***************************************************************************)
\* a mutation of explorerShows: the cycle error state is never shown
explorerShowsAlwaysData(cycleFound) == "AssetGraphExplorerWithData"

\* what AssetGraphExplorer renders once graphHasCycles has returned
explorerShows(cycleFound) ==
    IF cycleFound THEN "Cycle detected" ELSE "AssetGraphExplorerWithData"

\* the explorer renders a graph: graphHasCycles(assetGraphData) is called
InitExplorer ==
    /\ BuildIdle
    /\ PartitionStatusIdle
    /\ RangeIdle
    /\ LiveIdle
    /\ assetGraphData \in AnyGraphs
    /\ nodes = DOMAIN assetGraphData.nodes
    /\ calls = <<>>
    /\ hasCycles = FALSE
    /\ cyclePc = "while"
    /\ removals = EmptyMap

\* onSelectNode with the shift key, in the mounted AssetGraphExplorerWithData:
\* opsInRange({graph, from: lastSelectedNode, to: node}) is called, both
\* being nodes of the displayed graph
ShiftClick ==
    /\ cyclePc = "done"
    /\ explorerShows(hasCycles) = "AssetGraphExplorerWithData"
    /\ rangePc \in {"idle", "done"}
    /\ \E lastSelectedNode, node \in DOMAIN assetGraphData.nodes :
          /\ from' = lastSelectedNode
          /\ to' = node
    /\ op' = "opsInRange"
    /\ stack' = <<>>
    /\ direction' = "none"
    /\ result' = <<>>
    /\ rangePc' = "call"
    /\ round' = 1
    /\ firstResult' = <<>>
    /\ UNCHANGED exceptRange

\* the steps of an opsInRange call but the one that runs it to its return
QuerySteps ==
    \/ OpsInRangeReturnsEarly
    \/ OpsInRangeAsksDirection
    \/ DirectionFound
    \/ DirectionPush
    \/ DirectionExhausted

NextExplorer ==
    \/ NextCycle
    \/ ShiftClick
    \/ QuerySteps
    \/ OpsInRangeWalk

\* graphHasCycles and a query that was called go on while they can take a
\* step (for OpsInRangeWalk see SpecRangeAnyGraph); a click may never come
SpecExplorer ==
    /\ InitExplorer
    /\ [][NextExplorer]_vars
    /\ WF_vars(NextCycle)
    /\ WF_vars(QuerySteps)
    /\ []<>(rangePc # "walk")

\* a query has been called and has not returned
QueryRunning == rangePc \in {"call", "direction", "walk"}

\* C20: graphHasCycles is evaluated before any topology query; when it
\* returned true no query is ever called; every query is called on a graph
\* for which graphHasCycles returned false, and every such call returns.
C20_QueriesOnlyAfterCycleCheck ==
    /\ [](rangePc # "idle" => cyclePc = "done" /\ ~hasCycles /\ Acyclic(assetGraphData))
    /\ [](cyclePc = "done" /\ hasCycles => RangeIdle)
    /\ [](QueryRunning => <>RangeDone)

\* a shift-click query has returned op names after graphDirectionOf answered
\* 'upstream' past a node it had to push
C20_Witness ==
    /\ cyclePc = "done"
    /\ ~hasCycles
    /\ RangeDone
    /\ direction = "upstream"
    /\ result # <<>>
    /\ ~ReachesLoaded(assetGraphData, from, to)
    /\ to \notin GetOrEmpty(assetGraphData.upstream, from)

\* graphHasCycles returned true: the explorer shows 'Cycle detected'
CycleDetectedShown ==
    /\ cyclePc = "done"
    /\ explorerShows(hasCycles) = "Cycle detected"
    /\ RangeIdle

(***************************************************************************)
(* Properties of the `seen` argument of opsInRange                         *)
(***************************************************************************)
\* the recursive calls of the call of opsInRange that has returned, for an
\* order of Object.keys
CallsOfRange(order) ==
    recursiveCalls(assetGraphData, from, to, <<>>, direction, order)

\* the `from` the outermost call goes on with, after the swap
OutermostFrom == normalised(from, to, <<>>, direction)[1]

\* path is a chain of downstream edges from the node `first` to the node `last`
IsChain(graph, first, path, last) ==
    /\ path # <<>>
    /\ path[1] = first
    /\ \A i \in 1..(Len(path) - 1) : path[i + 1] \in downstreamNodes(graph, path[i])
    /\ last \in downstreamNodes(graph, path[Len(path)])

OpsInRangeWalked == RangeDone /\ op = "opsInRange" /\ ~fromIsMissing(from) /\ from # to

\* C21, as stated: in every recursive call of opsInRange, `seen` holds just
\* the immediate predecessor of the node being explored.
C21_SeenIsImmediatePredecessor ==
    OpsInRangeWalked =>
        \A order \in IdOrders : \A c \in CallsOfRange(order) :
            c.seen = <<c.caller>>

\* C21, amended: in every recursive call of opsInRange, `seen` is the full
\* ancestor path: the chain of downstream edges from the outermost `from` to
\* the node being explored, ending in its immediate predecessor; and no node
\* is explored that is an earlier ancestor on its own path.
C21_SeenIsAncestorPath ==
    OpsInRangeWalked =>
        \A order \in IdOrders : \A c \in CallsOfRange(order) :
            /\ IsChain(assetGraphData, OutermostFrom, c.seen, c.from)
            /\ c.seen[Len(c.seen)] = c.caller
            /\ c.from \notin Range(SubSeq(c.seen, 1, Len(c.seen) - 1))

\* a call at depth two of a walk on a graph with a cycle
C21_Witness ==
    /\ OpsInRangeWalked
    /\ ~Acyclic(assetGraphData)
    /\ \E order \in IdOrders : \E c \in CallsOfRange(order) :
        /\ Len(c.seen) = 2
        /\ c.seen # <<c.caller>>

(***************************************************************************)
(* graphHasCycles and the ids that are not in graph.nodes                  *)
(***************************************************************************)
\* the downstream index has a directed cycle, and each of its directed cycles
\* passes through an id that is not in graph.nodes
CyclesOnlyThroughForeignIds(graph) ==
    /\ HasDirectedCycle(EdgesOf(graph.downstream))
    /\ ~HasDirectedCycle(LoadedEdges(graph))

\* C23: graphHasCycles treats an id that is absent from graph.nodes as a
\* terminal vertex: such an id is never taken from the pool, never on the
\* stack of a search and its downstream keys are never searched, and when
\* every directed cycle of the downstream index passes through such an id the
\* function returns false.
C23_ForeignIdIsTerminal ==
    /\ DOMAIN removals \cap ForeignIds(assetGraphData) = {}
    /\ \A i \in 1..Len(calls) :
        Range(calls[i].nextStack) \cap ForeignIds(assetGraphData) = {}
    /\ (GraphHasCyclesReturned /\ CyclesOnlyThroughForeignIds(assetGraphData))
            => ~hasCycles

\* graphHasCycles returned false for A -> F -> A with F not in nodes
C23_Witness ==
    /\ GraphHasCyclesReturned
    /\ ~hasCycles
    /\ \E a \in DOMAIN assetGraphData.nodes : \E f \in ForeignIds(assetGraphData) :
        /\ <<a, f>> \in EdgesOf(assetGraphData.downstream)
        /\ <<f, a>> \in EdgesOf(assetGraphData.downstream)

(***************************************************************************)
(* The spans PartitionStatus renders, with splitPartitions and without     *)
(***************************************************************************)
\* the render has computed `spans`
SpansComputed == spansPc = "done"

\* the partitions at the indexes i0 and i0 + 1 belong to the same span
InSameSpan(i0) ==
    \E k \in 1..Len(spans) : spans[k].startIdx <= i0 /\ i0 + 1 <= spans[k].endIdx

\* two partitions at adjacent indexes with the same status belong to the
\* same span
SpansMaximal ==
    \A i \in 1..(Len(partitionNames) - 1) :
        partitionStateForKey[i] = partitionStateForKey[i + 1] => InSameSpan(i - 1)

\* C22, as stated: every span list that PartitionStatus computes for
\* rendering is maximal, with or without the splitPartitions option.
C22_SpansMaximalInBothModes == SpansComputed => SpansMaximal

\* C22, amended: without splitPartitions the span list is maximal; with
\* splitPartitions it holds one span per partition, {idx, idx, status of
\* idx}, whatever the statuses of the neighbours.
C22_SpansMaximalUnlessSplit ==
    SpansComputed =>
        IF splitPartitions
        THEN /\ Len(spans) = Len(partitionNames)
             /\ \A i \in 1..Len(spans) :
                    spans[i] = [startIdx |-> i - 1, endIdx |-> i - 1,
                                status |-> partitionStateForKey[i]]
        ELSE SpansMaximal

\* a render with splitPartitions: two adjacent partitions of the same status
\* in two spans
C22_Witness ==
    /\ SpansComputed
    /\ splitPartitions
    /\ Len(partitionNames) = 3
    /\ partitionStateForKey[2] = partitionStateForKey[3]
    /\ ~InSameSpan(1)

\* a render without splitPartitions that merged two partitions
UnsplitSpansMerged ==
    /\ SpansComputed
    /\ ~splitPartitions
    /\ Len(partitionNames) = 3
    /\ partitionStateForKey[1] # partitionStateForKey[2]
    /\ partitionStateForKey[2] = partitionStateForKey[3]
    /\ Len(spans) = 2

(***************************************************************************)
(* What a committed drag does to the selection                             *)
(***************************************************************************)
\* C24: a committed drag over the interval R leaves every partition outside
\* R selected or not as it was, and leaves R uniform: all of R is selected
\* after it or none of it; when not all of R was selected the new selection
\* is a superset of the old one.  Hence, of two identical drags in a row
\* over an R that was not fully selected, the first selects all of R and the
\* second deselects all of R, the rest of the selection being the original.
C24_DragKeepsTheRestAndLeavesRangeUniform ==
    [][PointerUpOfDrag =>
          LET R == NamesBetween(currentSelectionRange.start, EndOfDrag)
              S == Range(selected)
              new == Range(onSelectCalls'[1])
              secondOfTwo == /\ lastDrag.range = R
                             /\ lastDrag.after = S
                             /\ ~(R \subseteq lastDrag.before)
          IN  /\ new \ R = S \ R
              /\ R \subseteq new \/ R \cap new = {}
              /\ ~(R \subseteq S) => S \subseteq new
              /\ secondOfTwo =>
                    /\ R \subseteq lastDrag.after
                    /\ lastDrag.after \ R = lastDrag.before \ R
                    /\ R \cap new = {}
                    /\ new \ R = lastDrag.before \ R
              /\ lastDrag'.second <=> secondOfTwo]_vars

\* two identical drags in a row over p1 and p2 while p1 and p3 were selected:
\* the second pointer-up has passed only p3 to onSelect
C24_Witness ==
    /\ lastEvent.type = "mouseup"
    /\ lastDrag.second
    /\ lastDrag.range = {"p1", "p2"}
    /\ lastDrag.original = {"p1", "p3"}
    /\ lastDrag.before = {"p1", "p2", "p3"}
    /\ onSelectCalls = << <<"p3">> >>

====
